---------------------------- MODULE Spec2Model ----------------------------
(***************************************************************************)
(* Datatype descriptors and buffers of src/datatype/mod.rs.                *)
(*                                                                         *)
(* The program state is the set of descriptor values a caller owns         *)
(* (SystemDatatype copies, UserDatatype values, Views), together with the  *)
(* state of the foreign message-passing runtime they name handles of.      *)
(* The foreign runtime (MPI_Type_contiguous, MPI_Type_vector,              *)
(* MPI_Type_commit, MPI_Type_free, the pre-registered handles) is not part *)
(* of the source file; it is modelled from the external-interface section  *)
(* of the specification.                                                   *)
(***************************************************************************)
EXTENDS Integers, Sequences, FiniteSets

VARIABLES
    pc,        \* "running" | "aborted" (foreign runtime failure) | "panicked" | "done"
    registry,  \* the foreign constants ffi::RSMPI_*: name -> handle
    rt,        \* foreign runtime: handle -> "predefined"|"unalloc"|"constructed"|"committed"|"freed"
    log,       \* per handle, the foreign calls made on it: "construct", "commit", "free"
    used,      \* runtime states a composite handle was in when a caller handed it out by raw()
    sysv,      \* SystemDatatype values in scope
    objs,      \* UserDatatype values: field 0 (handle) and whether the value is in scope
    made,      \* per UserDatatype, the handle its constructor returned (history)
    lastCall,  \* arguments of the most recent constructor call (history)
    views,     \* View values in scope
    given,     \* per View, the count and the handle of the descriptor supplied (history)
    slice,     \* the value or slice a Buffer call is made on
    res        \* what the most recent Buffer/Datatype call returned

vars == <<pc, registry, rt, log, used, sysv, objs, made, lastCall, views, given, slice, res>>

---------------------------------------------------------------------------
(* Bounds *)

MaxObjs == 2      \* UserDatatype values constructed in one run
MaxSys == 1       \* SystemDatatype values held in scope at once
MaxViews == 1     \* View values constructed in one run

Slots == 1..MaxObjs
SysSlots == 1..MaxSys
ViewSlots == 1..MaxViews

---------------------------------------------------------------------------
(* The foreign runtime's handles *)

\* ffi::RSMPI_DATATYPE_NULL
NULL == 0

\* the names of the pre-registered handles, in the order of registration
Names == <<"RSMPI_FLOAT", "RSMPI_DOUBLE", "RSMPI_INT8_T", "RSMPI_INT16_T",
           "RSMPI_INT32_T", "RSMPI_INT64_T", "RSMPI_UINT8_T", "RSMPI_UINT16_T",
           "RSMPI_UINT32_T", "RSMPI_UINT64_T">>

NameSet == {Names[k] : k \in 1..Len(Names)}

\* the fixed table of pre-registered handles, one per name
Registered == [n \in NameSet |-> CHOOSE k \in 1..Len(Names) : Names[k] = n]

SysHandles == {Registered[n] : n \in NameSet}
UserHandles == (Len(Names) + 1)..(Len(Names) + MaxObjs)
Handles == SysHandles \cup UserHandles

\* the host scalar kinds of the equivalence registry
Kinds == {"f32", "f64", "i8", "i16", "i32", "i64", "u8", "u16", "u32", "u64"}

---------------------------------------------------------------------------
(* Foreign calls. P is the part of the state a handler works on:           *)
(* [pc, rt, log, used, objs]. A foreign failure is fatal: the runtime      *)
(* aborts the process inside the call and nothing after it runs.           *)

Prog == [pc |-> pc, rt |-> rt, log |-> log, used |-> used, objs |-> objs]

Abort(P) == [P EXCEPT !.pc = "aborted"]

Unalloc(P) == {h \in UserHandles : P.rt[h] = "unalloc"}

Fresh(P) == CHOOSE h \in Unalloc(P) : \A g \in Unalloc(P) : h <= g

\* construct_*(args, oldtype_handle) -> new_handle
TypeConstruct(P, argsOk, oldtype, fault) ==
    IF P.pc # "running"
    THEN [P |-> P, out |-> NULL]
    ELSE IF fault \/ ~argsOk \/ oldtype \notin Handles \/ Unalloc(P) = {}
    THEN [P |-> Abort(P), out |-> NULL]
    ELSE IF P.rt[oldtype] \notin {"predefined", "constructed", "committed"}
    THEN [P |-> Abort(P), out |-> NULL]
    ELSE LET h == Fresh(P)
         IN [P |-> [P EXCEPT !.rt[h] = "constructed",
                             !.log[h] = Append(@, "construct")],
             out |-> h]

MPI_Type_contiguous(P, count, oldtype, fault) ==
    TypeConstruct(P, count >= 0, oldtype, fault)

MPI_Type_vector(P, count, blocklength, stride, oldtype, fault) ==
    TypeConstruct(P, count >= 0 /\ blocklength >= 0, oldtype, fault)

\* commit(handle)
MPI_Type_commit(P, h, fault) ==
    IF P.pc # "running" THEN P
    ELSE IF h \notin Handles THEN Abort(P)
    ELSE LET Q == [P EXCEPT !.log[h] = Append(@, "commit")]
         IN IF fault \/ Q.rt[h] \notin {"constructed", "committed"}
            THEN Abort(Q)
            ELSE [Q EXCEPT !.rt[h] = "committed"]

\* free(handle): releases the resource and sets the handle to the null sentinel
MPI_Type_free(P, h) ==
    IF P.pc # "running" THEN [P |-> P, out |-> h]
    ELSE IF h \notin Handles THEN [P |-> Abort(P), out |-> h]
    ELSE LET Q == [P EXCEPT !.log[h] = Append(@, "free")]
         IN IF Q.rt[h] \notin {"constructed", "committed"}
            THEN [P |-> Abort(Q), out |-> h]
            ELSE [P |-> [Q EXCEPT !.rt[h] = "freed"], out |-> NULL]

---------------------------------------------------------------------------
(* Descriptors *)

\* a variant of the table with the arm of u8 naming the handle of i8
MpiName_u8_as_i8(T) ==
    CASE T = "f32" -> "RSMPI_FLOAT"
      [] T = "f64" -> "RSMPI_DOUBLE"
      [] T = "i8"  -> "RSMPI_INT8_T"
      [] T = "i16" -> "RSMPI_INT16_T"
      [] T = "i32" -> "RSMPI_INT32_T"
      [] T = "i64" -> "RSMPI_INT64_T"
      [] T = "u8"  -> "RSMPI_INT8_T"
      [] T = "u16" -> "RSMPI_UINT16_T"
      [] T = "u32" -> "RSMPI_UINT32_T"
      [] T = "u64" -> "RSMPI_UINT64_T"

\* the arm of equivalent_system_datatype! for each host scalar kind
MpiName(T) ==
    CASE T = "f32" -> "RSMPI_FLOAT"
      [] T = "f64" -> "RSMPI_DOUBLE"
      [] T = "i8"  -> "RSMPI_INT8_T"
      [] T = "i16" -> "RSMPI_INT16_T"
      [] T = "i32" -> "RSMPI_INT32_T"
      [] T = "i64" -> "RSMPI_INT64_T"
      [] T = "u8"  -> "RSMPI_UINT8_T"
      [] T = "u16" -> "RSMPI_UINT16_T"
      [] T = "u32" -> "RSMPI_UINT32_T"
      [] T = "u64" -> "RSMPI_UINT64_T"

\* struct SystemDatatype(MPI_Datatype)
SystemDatatype(h) == [handle |-> h]

\* fn equivalent_datatype() -> SystemDatatype { SystemDatatype($mpitype) }
equivalent_datatype(T) == SystemDatatype(registry[MpiName(T)])

\* An argument of type D: RawDatatype is a value or a borrow (by) of a
\* SystemDatatype in scope (kind "sys", id = slot) or of a UserDatatype in
\* scope (kind "user", id = slot). A SystemDatatype passed by value is a
\* copy; a UserDatatype passed by value is moved.
SysArgs == [by : {"value", "ref"}, kind : {"sys"}, id : SysSlots]
UserArgs == [by : {"value", "ref"}, kind : {"user"}, id : Slots]

\* RawDatatype::raw for SystemDatatype, UserDatatype and &D
raw(P, d) ==
    CASE d.kind = "sys"  -> sysv[d.id].handle
      [] d.kind = "user" -> P.objs[d.id].handle

\* the caller hands a raw handle to the foreign runtime
Handed(P, d) ==
    IF d.kind = "user" /\ raw(P, d) \in Handles
    THEN [P EXCEPT !.used = @ \cup {P.rt[raw(P, d)]}]
    ELSE P

\* variants of drop: a second free, no free, a free of a copy of the
\* handle, a free of every handle in scope
drop_twice(P, j) ==
    LET f == MPI_Type_free(P, P.objs[j].handle)
        g == MPI_Type_free(f.P, P.objs[j].handle)
    IN [g.P EXCEPT !.objs[j] = [st |-> "dropped", handle |-> f.out]]

drop_nothing(P, j) == [P EXCEPT !.objs[j].st = "dropped"]

drop_copy(P, j) ==
    LET f == MPI_Type_free(P, P.objs[j].handle)
        Q == f.P
    IN IF Q.pc # "running" THEN Q
       ELSE IF Q.objs[j].handle = NULL
       THEN [Q EXCEPT !.objs[j].st = "dropped"]
       ELSE [Q EXCEPT !.pc = "panicked"]

RECURSIVE FreeAll(_, _)
FreeAll(P, S) ==
    IF S = {} THEN P
    ELSE LET k == CHOOSE x \in S : TRUE
             f == MPI_Type_free(P, P.objs[k].handle)
         IN FreeAll([f.P EXCEPT !.objs[k].handle = f.out], S \ {k})

drop_all(P, j) ==
    LET Q == FreeAll(P, {k \in DOMAIN P.objs : P.objs[k].st = "live"})
    IN [Q EXCEPT !.objs[j].st = "dropped"]

\* impl Drop for UserDatatype
drop(P, j) ==
    LET f == MPI_Type_free(P, P.objs[j].handle)
        Q == [f.P EXCEPT !.objs[j].handle = f.out]
    IN IF Q.pc # "running" THEN Q
       ELSE IF Q.objs[j].handle = NULL
       THEN [Q EXCEPT !.objs[j].st = "dropped"]
       ELSE [Q EXCEPT !.pc = "panicked"]

\* the end of a function taking `oldtype: D` by value: a moved-in
\* UserDatatype is dropped there, a SystemDatatype or a borrow has no drop
DropArg(P, d) ==
    IF d.by = "value" /\ d.kind = "user" /\ P.pc = "running"
    THEN drop(P, d.id)
    ELSE P

\* variants of contiguous: one that carries on after a foreign failure, one
\* that wraps the handle of oldtype
contiguous_recover(P, count, oldtype, fc, fm) ==
    LET c == MPI_Type_contiguous(Handed(P, oldtype), count, raw(P, oldtype), fc)
        m == MPI_Type_commit(c.P, c.out, fm)
    IN [P |-> DropArg([m EXCEPT !.pc = "running"], oldtype), ret |-> c.out]

contiguous_oldtype(P, count, oldtype, fc, fm) ==
    LET c == MPI_Type_contiguous(Handed(P, oldtype), count, raw(P, oldtype), fc)
        m == MPI_Type_commit(c.P, c.out, fm)
    IN [P |-> DropArg(m, oldtype), ret |-> raw(P, oldtype)]

\* UserDatatype::contiguous
contiguous(P, count, oldtype, fc, fm) ==
    LET c == MPI_Type_contiguous(Handed(P, oldtype), count, raw(P, oldtype), fc)
        m == MPI_Type_commit(c.P, c.out, fm)
    IN [P |-> DropArg(m, oldtype), ret |-> c.out]

\* a variant of vector that leaves the commit out
vector_nocommit(P, count, blocklength, stride, oldtype, fc, fm) ==
    LET c == MPI_Type_vector(Handed(P, oldtype), count, blocklength, stride,
                             raw(P, oldtype), fc)
    IN [P |-> DropArg(c.P, oldtype), ret |-> c.out]

\* UserDatatype::vector
vector(P, count, blocklength, stride, oldtype, fc, fm) ==
    LET c == MPI_Type_vector(Handed(P, oldtype), count, blocklength, stride,
                             raw(P, oldtype), fc)
        m == MPI_Type_commit(c.P, c.out, fm)
    IN [P |-> DropArg(m, oldtype), ret |-> c.out]

\* impl Datatype for T and for [T] where T: EquivalentDatatype
Scalar_datatype(T) == equivalent_datatype(T)

Slice_datatype(T) == equivalent_datatype(T)

---------------------------------------------------------------------------
(* Buffers. A slice length is a usize; it is written in base 2^16 as       *)
(* [hi, lo] (length = hi * 2^16 + lo) so that lengths beyond the Count     *)
(* range can be enumerated.                                                *)

\* the digit base: Count is a 32-bit two's complement integer, two digits
Half == 65536

Representable(len) == 2 * len.hi < Half

\* the length as a number, where it is representable as a Count
Value(len) == len.hi * Half + len.lo

\* `len as Count`: the low 32 bits, reinterpreted as signed
AsCount(len) ==
    LET h == len.hi % Half
    IN IF 2 * h >= Half THEN (h - Half) * Half + len.lo ELSE h * Half + len.lo

\* impl Buffer for T where T: EquivalentDatatype
Scalar_count(x) == [val |-> 1, failed |-> FALSE]

Scalar_send_address(x) == x.addr

Scalar_receive_address(x) == x.addr

\* impl Buffer for [T] where T: EquivalentDatatype
Slice_count(x) == [val |-> AsCount(x.len), failed |-> FALSE]

Slice_send_address(x) == x.addr

Slice_receive_address(x) == x.addr

\* a variant of with_count_and_datatype that clamps count to the slice
with_count_and_datatype_clamped(buffer, count, datatype) ==
    [st |-> "live", dkind |-> datatype.kind, did |-> datatype.id,
     count |-> IF count > buffer.len THEN buffer.len ELSE count, buffer |-> buffer]

\* View::with_count_and_datatype
with_count_and_datatype(buffer, count, datatype) ==
    [st |-> "live", dkind |-> datatype.kind, did |-> datatype.id,
     count |-> count, buffer |-> buffer]

\* impl Datatype for View: the borrow the View was given
View_datatype(view) == [by |-> "ref", kind |-> view.dkind, id |-> view.did]

\* impl Buffer for View
View_count(view) == view.count

View_send_address(view) == view.buffer.addr

View_receive_address(view) == view.buffer.addr

---------------------------------------------------------------------------
(* Inputs *)

Counts == {-1, 0, 2}
VecArgs == {<<2, 1, 3>>, <<2, 2, 1>>, <<2, -1, 1>>}
Faults == {"none", "construct", "commit"}

\* a failure is injected into the calls the runtime would otherwise accept
Injected(count, blocklength, fault) ==
    (count < 0 \/ blocklength < 0) => fault = "none"

NoCall == [ctor |-> "none", slot |-> 0, count |-> 0, blocklength |-> 0,
           stride |-> 0, fault |-> "none", borrowed |-> 0]

\* the UserDatatype slot an argument borrows (0: none)
BorrowedSlot(d) == IF d.by = "ref" /\ d.kind = "user" THEN d.id ELSE 0


NoObj == [st |-> "none", handle |-> NULL]
NoSys == [st |-> "none", kind |-> "none", handle |-> NULL]
NoBuffer == [addr |-> 0, len |-> 0]
NoView == [st |-> "none", dkind |-> "none", did |-> 0, count |-> 0, buffer |-> NoBuffer]

\* the slices Views are made over, and the counts they are given
ViewBuffers == {[addr |-> 64, len |-> 0], [addr |-> 128, len |-> 3]}
ViewCounts == {-1, 1, 7}
ViewArgs == [by : {"ref"}, kind : {"sys"}, id : SysSlots]
                \cup [by : {"ref"}, kind : {"user"}, id : Slots]

\* the values and slices Buffer calls are made on
His == {0, 1, 32767, 32768, 65535, 65536, 65537}
Los == {0, 1, 65535}
SliceInputs == [kind : {"slice"}, T : Kinds, addr : {64}, len : [hi : His, lo : Los]]
ScalarInputs == [kind : {"scalar"}, T : Kinds, addr : {64}]
NoGiven == [count |-> 0, handle |-> NULL]
NoSlice == [kind |-> "none"]
NoRes == [op |-> "none"]

ArgLive(d) ==
    CASE d.kind = "sys"  -> sysv[d.id].st = "live"
      [] d.kind = "user" -> objs[d.id].st = "live"

\* a View borrows its descriptor for as long as it is in scope
Borrowed(kind, id) ==
    \E v \in ViewSlots :
        views[v].st = "live" /\ views[v].dkind = kind /\ views[v].did = id

\* a UserDatatype can be moved out of its binding only while nothing borrows it
ArgFree(d) == ~(d.by = "value" /\ d.kind = "user" /\ Borrowed("user", d.id))

---------------------------------------------------------------------------
(* The state after construction *)

Init ==
    /\ pc = "running"
    /\ registry = Registered
    /\ rt = [h \in Handles |-> IF h \in SysHandles THEN "predefined" ELSE "unalloc"]
    /\ log = [h \in Handles |-> <<>>]
    /\ used = {}
    /\ sysv = [s \in SysSlots |-> NoSys]
    /\ objs = [i \in Slots |-> NoObj]
    /\ made = [i \in Slots |-> NULL]
    /\ lastCall = NoCall
    /\ views = [v \in ViewSlots |-> NoView]
    /\ given = [v \in ViewSlots |-> NoGiven]
    /\ slice = NoSlice
    /\ res = NoRes

\* a handler's result written back; slot i receives the returned value
Return(i, r) ==
    /\ pc' = r.P.pc
    /\ rt' = r.P.rt
    /\ log' = r.P.log
    /\ used' = r.P.used
    /\ IF r.P.pc = "running"
       THEN /\ objs' = [r.P.objs EXCEPT ![i] = [st |-> "live", handle |-> r.ret]]
            /\ made' = [made EXCEPT ![i] = r.ret]
       ELSE /\ objs' = r.P.objs
            /\ made' = made

NextSlot(i) ==
    /\ objs[i].st = "none"
    /\ \A k \in Slots : k < i => objs[k].st # "none"

\* let x_i = UserDatatype::contiguous(count, oldtype)
ContiguousCall(i, count, oldtype, fault) ==
    /\ pc = "running"
    /\ NextSlot(i)
    /\ ArgLive(oldtype) /\ ArgFree(oldtype)
    /\ Return(i, contiguous(Prog, count, oldtype, fault = "construct", fault = "commit"))
    /\ lastCall' = [ctor |-> "contiguous", slot |-> i, count |-> count,
                    blocklength |-> 0, stride |-> 0, fault |-> fault,
                    borrowed |-> BorrowedSlot(oldtype)]
    /\ UNCHANGED <<registry, sysv, views, given, slice, res>>

Contiguous(i) ==
    \E count \in Counts, fault \in Faults :
        /\ Injected(count, 0, fault)
        /\ \/ \E a \in SysArgs : ContiguousCall(i, count, a, fault)
           \/ \E a \in UserArgs : ContiguousCall(i, count, a, fault)

\* let x_i = UserDatatype::vector(count, blocklength, stride, oldtype)
VectorCall(i, a3, oldtype, fault) ==
    /\ pc = "running"
    /\ NextSlot(i)
    /\ ArgLive(oldtype) /\ ArgFree(oldtype)
    /\ Return(i, vector(Prog, a3[1], a3[2], a3[3], oldtype,
                        fault = "construct", fault = "commit"))
    /\ lastCall' = [ctor |-> "vector", slot |-> i, count |-> a3[1],
                    blocklength |-> a3[2], stride |-> a3[3], fault |-> fault,
                    borrowed |-> BorrowedSlot(oldtype)]
    /\ UNCHANGED <<registry, sysv, views, given, slice, res>>

Vector(i) ==
    \E a3 \in VecArgs, fault \in Faults :
        /\ Injected(a3[1], a3[2], fault)
        /\ \/ \E a \in SysArgs : VectorCall(i, a3, a, fault)
           \/ \E a \in UserArgs : VectorCall(i, a3, a, fault)

\* the scope of x_i ends
Drop(i) ==
    /\ pc = "running"
    /\ objs[i].st = "live"
    /\ ~Borrowed("user", i)
    /\ LET Q == drop(Prog, i)
       IN /\ pc' = Q.pc
          /\ rt' = Q.rt
          /\ log' = Q.log
          /\ used' = Q.used
          /\ objs' = Q.objs
    /\ UNCHANGED <<registry, sysv, made, lastCall, views, given, slice, res>>

\* x_i is handed to a transfer operation as the descriptor of a buffer
Use(i) ==
    /\ pc = "running"
    /\ objs[i].st = "live"
    /\ used' = Handed(Prog, [by |-> "ref", kind |-> "user", id |-> i]).used
    /\ UNCHANGED <<pc, registry, rt, log, sysv, objs, made, lastCall, views, given,
                   slice, res>>

\* let s = T::equivalent_datatype()
EquivalentDatatype(s, T) ==
    /\ pc = "running"
    /\ sysv[s].st = "none"
    /\ sysv' = [sysv EXCEPT ![s] = [st |-> "live", kind |-> T,
                                    handle |-> equivalent_datatype(T).handle]]
    /\ UNCHANGED <<pc, registry, rt, log, used, objs, made, lastCall, views, given,
                   slice, res>>

\* the scope of a SystemDatatype ends: the type has no Drop
DropSystem(s) ==
    /\ pc = "running"
    /\ sysv[s].st = "live"
    /\ ~Borrowed("sys", s)
    /\ sysv' = [sysv EXCEPT ![s] = NoSys]
    /\ UNCHANGED <<pc, registry, rt, log, used, objs, made, lastCall, views, given,
                   slice, res>>

NextView(v) ==
    /\ views[v].st = "none"
    /\ \A k \in ViewSlots : k < v => views[k].st # "none"

\* let w_v = View::with_count_and_datatype(buffer, count, &d)
WithCountAndDatatype(v, buffer, count, d) ==
    /\ pc = "running"
    /\ NextView(v)
    /\ ArgLive(d)
    /\ \A k \in ViewSlots : views[k].st = "live" => views[k].buffer # buffer
    /\ views' = [views EXCEPT ![v] = with_count_and_datatype(buffer, count, d)]
    /\ given' = [given EXCEPT ![v] = [count |-> count, handle |-> raw(Prog, d)]]
    /\ UNCHANGED <<pc, registry, rt, log, used, sysv, objs, made, lastCall, slice, res>>

Called(op, v, val) ==
    /\ pc = "running"
    /\ views[v].st = "live"
    /\ res' = [op |-> op, view |-> v, val |-> val, prev |-> res.op]
    /\ UNCHANGED <<pc, registry, rt, log, used, sysv, objs, made, lastCall, views,
                   given, slice>>

ViewCount(v) == Called("count", v, View_count(views[v]))

ViewDatatype(v) == Called("datatype", v, raw(Prog, View_datatype(views[v])))

ViewSendAddress(v) == Called("send_address", v, View_send_address(views[v]))

ViewReceiveAddress(v) == Called("receive_address", v, View_receive_address(views[v]))

\* the scope of w_v ends
DropView(v) ==
    /\ pc = "running"
    /\ views[v].st = "live"
    /\ views' = [views EXCEPT ![v] = [NoView EXCEPT !.st = "dropped"]]
    /\ res' = NoRes
    /\ UNCHANGED <<pc, registry, rt, log, used, sysv, objs, made, lastCall, given,
                   slice>>

\* main returns: every owner's scope has ended
Exit ==
    /\ pc = "running"
    /\ \A i \in Slots : objs[i].st # "live"
    /\ \A v \in ViewSlots : views[v].st # "live"
    /\ pc' = "done"
    /\ UNCHANGED <<registry, rt, log, used, sysv, objs, made, lastCall, views, given,
                   slice, res>>

Next ==
    \/ \E i \in Slots : Contiguous(i)
    \/ \E i \in Slots : Vector(i)
    \/ \E i \in Slots : Drop(i)
    \/ \E i \in Slots : Use(i)
    \/ \E s \in SysSlots, T \in Kinds : EquivalentDatatype(s, T)
    \/ \E s \in SysSlots : DropSystem(s)
    \/ Exit

\* descriptor lifecycle
Spec == Init /\ [][Next]_vars

\* let s = T::equivalent_datatype();
LiveInit ==
    \E T \in Kinds :
        /\ pc = "running"
        /\ registry = Registered
        /\ rt = [h \in Handles |-> IF h \in SysHandles THEN "predefined" ELSE "unalloc"]
        /\ log = [h \in Handles |-> <<>>]
        /\ used = {}
        /\ sysv = [s \in SysSlots |-> IF s = 1
                       THEN [st |-> "live", kind |-> T,
                             handle |-> Registered[MpiName(T)]]
                       ELSE NoSys]
        /\ objs = [i \in Slots |-> NoObj]
        /\ made = [i \in Slots |-> NULL]
        /\ lastCall = NoCall
        /\ views = [v \in ViewSlots |-> NoView]
        /\ given = [v \in ViewSlots |-> NoGiven]
        /\ slice = NoSlice
        /\ res = NoRes

LiveNext ==
    \/ \E i \in Slots : Contiguous(i)
    \/ \E i \in Slots : Vector(i)
    \/ \E i \in Slots : Drop(i)
    \/ \E i \in Slots : Use(i)
    \/ Exit

\* composite descriptors over one SystemDatatype in scope; every owner's
\* scope eventually ends
LiveSpec == LiveInit /\ [][LiveNext]_vars /\ \A i \in Slots : WF_vars(Drop(i))

---------------------------------------------------------------------------
(* Views over descriptors in scope *)

\* let s = T::equivalent_datatype(); let x = UserDatatype::contiguous(2, &s);
ViewInit ==
    \E T \in Kinds :
        /\ pc = "running"
        /\ registry = Registered
        /\ rt = [h \in Handles |-> IF h \in SysHandles THEN "predefined"
                                   ELSE IF h = Len(Names) + 1 THEN "committed"
                                   ELSE "unalloc"]
        /\ log = [h \in Handles |-> IF h = Len(Names) + 1
                                    THEN <<"construct", "commit">> ELSE <<>>]
        /\ used = {}
        /\ sysv = [s \in SysSlots |-> IF s = 1
                       THEN [st |-> "live", kind |-> T,
                             handle |-> Registered[MpiName(T)]]
                       ELSE NoSys]
        /\ objs = [i \in Slots |-> IF i = 1
                       THEN [st |-> "live", handle |-> Len(Names) + 1] ELSE NoObj]
        /\ made = [i \in Slots |-> IF i = 1 THEN Len(Names) + 1 ELSE NULL]
        /\ lastCall = [ctor |-> "contiguous", slot |-> 1, count |-> 2,
                       blocklength |-> 0, stride |-> 0, fault |-> "none",
                       borrowed |-> 0]
        /\ views = [v \in ViewSlots |-> NoView]
        /\ given = [v \in ViewSlots |-> NoGiven]
        /\ slice = NoSlice
        /\ res = NoRes

ViewNext ==
    \/ \E v \in ViewSlots, b \in ViewBuffers, c \in ViewCounts, d \in ViewArgs :
            WithCountAndDatatype(v, b, c, d)
    \/ \E v \in ViewSlots : ViewCount(v)
    \/ \E v \in ViewSlots : ViewDatatype(v)
    \/ \E v \in ViewSlots : ViewSendAddress(v)
    \/ \E v \in ViewSlots : ViewReceiveAddress(v)
    \/ \E v \in ViewSlots : DropView(v)
    \/ \E i \in Slots : Drop(i)
    \/ \E s \in SysSlots : DropSystem(s)
    \/ Exit

ViewSpec == ViewInit /\ [][ViewNext]_vars

---------------------------------------------------------------------------
(* Buffer calls on values and slices *)

DataInit ==
    /\ pc = "running"
    /\ registry = Registered
    /\ rt = [h \in Handles |-> IF h \in SysHandles THEN "predefined" ELSE "unalloc"]
    /\ log = [h \in Handles |-> <<>>]
    /\ used = {}
    /\ sysv = [s \in SysSlots |-> NoSys]
    /\ objs = [i \in Slots |-> NoObj]
    /\ made = [i \in Slots |-> NULL]
    /\ lastCall = NoCall
    /\ views = [v \in ViewSlots |-> NoView]
    /\ given = [v \in ViewSlots |-> NoGiven]
    /\ slice \in SliceInputs \cup ScalarInputs
    /\ res = NoRes

Returned(kind, op, r) ==
    /\ slice.kind = kind
    /\ res' = [op |-> op, val |-> r.val, failed |-> r.failed]
    /\ UNCHANGED <<pc, registry, rt, log, used, sysv, objs, made, lastCall, views,
                   given, slice>>

Plain(a) == [val |-> a, failed |-> FALSE]

ScalarCount == Returned("scalar", "count", Scalar_count(slice))

ScalarDatatype == Returned("scalar", "datatype", Plain(Scalar_datatype(slice.T).handle))

ScalarSendAddress == Returned("scalar", "send_address", Plain(Scalar_send_address(slice)))

ScalarReceiveAddress ==
    Returned("scalar", "receive_address", Plain(Scalar_receive_address(slice)))

SliceCount == Returned("slice", "count", Slice_count(slice))

SliceDatatype == Returned("slice", "datatype", Plain(Slice_datatype(slice.T).handle))

SliceSendAddress == Returned("slice", "send_address", Plain(Slice_send_address(slice)))

SliceReceiveAddress ==
    Returned("slice", "receive_address", Plain(Slice_receive_address(slice)))

DataNext ==
    \/ ScalarCount
    \/ ScalarDatatype
    \/ SliceDatatype
    \/ ScalarSendAddress
    \/ ScalarReceiveAddress
    \/ SliceCount
    \/ SliceSendAddress
    \/ SliceReceiveAddress

DataSpec == DataInit /\ [][DataNext]_vars

---------------------------------------------------------------------------
(* Properties *)

Lifecycle == <<"construct", "commit", "free">>

IsPrefix(a, b) == Len(a) <= Len(b) /\ \A k \in 1..Len(a) : a[k] = b[k]

Calls(h, what) == Cardinality({k \in 1..Len(log[h]) : log[h][k] = what})

\* C1: the free operation is invoked at most once per handle and only on a
\* committed handle: the foreign calls on a composite handle are a prefix
\* of construct, commit, free; a descriptor in scope names a committed
\* handle, a dropped one a freed handle; nothing follows the free.
C1_FreeOnceOnCommitted ==
    /\ \A h \in UserHandles :
          /\ IsPrefix(log[h], Lifecycle)
          /\ Calls(h, "free") = 1 => rt[h] = "freed"
          /\ rt[h] = "freed" => log[h] = Lifecycle
    /\ \A i \in Slots :
          /\ objs[i].st = "live" => rt[made[i]] = "committed"
          /\ objs[i].st = "dropped" => rt[made[i]] = "freed"

C1_Witness ==
    \E i, j \in Slots :
        /\ objs[i].st = "dropped" /\ log[made[i]] = Lifecycle
        /\ objs[j].st = "live" /\ log[made[j]] = <<"construct", "commit">>

\* C2: no leak: a descriptor a constructor has committed is eventually
\* freed once its owner's scope ends (unless the foreign runtime has
\* aborted the process), and when main returns no handle is committed.
C2_NoLeak ==
    /\ \A i \in Slots :
          (objs[i].st = "live") ~>
              ((objs[i].st = "dropped" /\ rt[made[i]] = "freed") \/ pc = "aborted")
    /\ [](pc = "done" => \A h \in UserHandles : rt[h] # "committed")

C2_Witness ==
    /\ pc = "done"
    /\ \A i \in Slots : objs[i].st = "dropped" /\ rt[made[i]] = "freed"

\* C3: the handle of a composite descriptor is not the null sentinel from
\* the return of its constructor until its free and is the null sentinel
\* after the free; the assertion in drop never fails.
C3_NullAfterFree ==
    /\ pc # "panicked"
    /\ \A i \in Slots :
          /\ objs[i].st = "live" => objs[i].handle # NULL /\ objs[i].handle = made[i]
          /\ objs[i].st = "dropped" => objs[i].handle = NULL /\ made[i] # NULL

C3_Witness ==
    /\ lastCall.ctor = "contiguous" /\ lastCall.count = 0
    /\ objs[lastCall.slot].st = "dropped"
    /\ objs[lastCall.slot].handle = NULL
    /\ \E i \in Slots : objs[i].st = "live"

\* C4: both constructors request a handle, commit that handle once and
\* return: a descriptor a caller holds names a handle constructed and then
\* committed exactly once, and a caller hands out committed handles only.
C4_CommitBeforeUse ==
    /\ \A i \in Slots :
          objs[i].st = "live" =>
              /\ objs[i].handle \in UserHandles
              /\ log[objs[i].handle] = <<"construct", "commit">>
              /\ rt[objs[i].handle] = "committed"
    /\ \A h \in UserHandles :
          /\ Calls(h, "construct") <= 1 /\ Calls(h, "commit") <= 1
          /\ log[h] # <<>> => log[h][1] = "construct"
    /\ used \subseteq {"committed"}

C4_Witness ==
    /\ lastCall.ctor = "vector"
    /\ objs[lastCall.slot].st = "live"
    /\ lastCall.borrowed # 0
    /\ used = {"committed"}

CallFails(c) == c.fault # "none" \/ c.count < 0 \/ c.blocklength < 0

C6_DropFrame ==
    /\ [](\A i \in Slots : objs[i].st = "dropped" => Calls(made[i], "free") = 1)
    /\ [][\A i \in Slots :
            Drop(i) =>
                /\ \A j \in Slots \ {i} : objs'[j] = objs[j]
                /\ \A h \in Handles \ {objs[i].handle} :
                      rt'[h] = rt[h] /\ log'[h] = log[h]
                /\ Calls(objs[i].handle, "free") = 0]_vars

C6_Witness ==
    /\ lastCall.slot = 2 /\ lastCall.borrowed = 1
    /\ objs[1].st = "dropped" /\ objs[2].st = "live"
    /\ rt[made[1]] = "freed" /\ rt[made[2]] = "committed"
    /\ made[1] # made[2]

\* C7: count() of a slice of length N returns N when N is representable as
\* a Count and fails explicitly when it is not.
C7_CountChecked ==
    (res.op = "count" /\ slice.kind = "slice") =>
        IF Representable(slice.len)
        THEN ~res.failed /\ res.val = Value(slice.len)
        ELSE res.failed

\* C8: a View reports the count and the descriptor it was constructed with,
\* whatever the slice and the count, on every call.
C8_ViewPassThrough ==
    \A v \in ViewSlots :
        views[v].st = "live" =>
            /\ View_count(views[v]) = given[v].count
            /\ raw(Prog, View_datatype(views[v])) = given[v].handle
            /\ given[v].handle \in Handles
            /\ (res.op = "count" /\ res.view = v) => res.val = given[v].count
            /\ (res.op = "datatype" /\ res.view = v) => res.val = given[v].handle

C8_Witness ==
    \E v \in ViewSlots :
        /\ views[v].st = "live" /\ views[v].dkind = "user"
        /\ given[v].count = 7 /\ views[v].buffer.len = 3
        /\ res.op = "count" /\ res.view = v /\ res.val = 7
        /\ res.prev = "receive_address"

\* C9: equivalent_datatype() of a scalar kind returns the same identifier
\* on every call, whatever happened before; distinct kinds have distinct
\* identifiers; a value and a slice of the kind report that identifier.
C9_EquivalenceStable ==
    /\ \A s \in SysSlots :
          sysv[s].st = "live" =>
              /\ sysv[s].handle = equivalent_datatype(sysv[s].kind).handle
              /\ sysv[s].handle = Scalar_datatype(sysv[s].kind).handle
              /\ sysv[s].handle = Slice_datatype(sysv[s].kind).handle
    /\ \A s, t \in SysSlots :
          (sysv[s].st = "live" /\ sysv[t].st = "live") =>
              (sysv[s].kind = sysv[t].kind <=> sysv[s].handle = sysv[t].handle)
    /\ \A T, U \in Kinds :
          T # U => equivalent_datatype(T).handle # equivalent_datatype(U).handle

C9_Witness ==
    /\ \E s \in SysSlots : sysv[s].st = "live" /\ sysv[s].kind = "u8"
    /\ \E h \in UserHandles : rt[h] = "freed"
    /\ \E h \in UserHandles : rt[h] = "committed"

\* C10: a pre-registered handle is never passed to the free operation and
\* never changes: it stays registered under its original identifier.
C10_SystemNeverFreed ==
    /\ registry = Registered
    /\ \A h \in SysHandles : rt[h] = "predefined" /\ Calls(h, "free") = 0
    /\ \A s \in SysSlots :
          sysv[s].st = "live" => sysv[s].handle = Registered[MpiName(sysv[s].kind)]

C10_Witness ==
    /\ objs[1].st = "dropped" /\ rt[made[1]] = "freed"
    /\ lastCall.slot = 2 /\ lastCall.borrowed = 0 /\ objs[2].st = "dropped"
    /\ \A s \in SysSlots : sysv[s].st = "none"
    /\ pc = "done"

=============================================================================
